---------------------------- MODULE Spec2Model ----------------------------
(***************************************************************************)
(* Round-trip test engine of django-postgres-timezones                     *)
(* (src/tztest/tztest/main.py).                                            *)
(*                                                                         *)
(* Time is counted in half-hours since 2002-01-01T00:00 (every instant of  *)
(* the catalog, every zone offset and every daylight-saving transition of  *)
(* 2002 is a whole number of half-hours).  A datetime is the record Python *)
(* keeps: wall-clock fields plus a tzinfo and the UTC offset that tzinfo   *)
(* gives; a naive datetime has tzinfo "None".  Equality and subtraction of *)
(* aware datetimes go through wall - utcoffset, as in Python.              *)
(***************************************************************************)
EXTENDS Integers, Sequences, FiniteSets, TLC

VARIABLES
    DJANGO_TZ,          \* main.py:13, timezone(settings.TIME_ZONE); also the connection zone
    next_test_number,   \* Test.next_test_number
    db,                 \* the Timestamp table: db[pk] is the stored instant (UTC)
    log,                \* store calls made so far, in order
    headers,            \* TestTable.headers
    rows,               \* TestTable.rows
    failed,             \* an exception has propagated out of the last call
    added,              \* the datetimes handed to add_datetime, as given
    pc,                 \* position in generate_test_table / in a single trial
    trial,              \* the (test, saved_dt) of the last Test.run_test call
    result              \* the TestResult last constructed

vars == <<DJANGO_TZ, next_test_number, db, log, headers, rows, failed, added,
          pc, trial, result>>

---------------------------------------------------------------------------
(* Bounds of the model *)

\* add_datetime / add_test calls made on one table
MaxCalls == 3

\* half-hours on each side of every instant of interest
Window == 2

---------------------------------------------------------------------------
(* datetime(2002, month, day, hour, minute) on the half-hour axis *)

DaysBeforeMonth == <<0, 31, 59, 90, 120, 151, 181, 212, 243, 273, 304, 334>>

HalfHour(month, day, hour, minute) ==
    ((DaysBeforeMonth[month] + day - 1) * 24 + hour) * 2 + (minute \div 30)

Hours(h) == 2 * h

---------------------------------------------------------------------------
(* Time zones (pytz): UTC, a zone with daylight saving, a fixed-offset zone *)

UTC == "UTC"
US_Pacific == "US/Pacific"
Asia_Tokyo == "Asia/Tokyo"

Zones == {UTC, US_Pacific, Asia_Tokyo}

\* US/Pacific in 2002: PST until 2002-04-07 10:00Z, PDT until 2002-10-27 09:00Z
PacificSpring == HalfHour(4, 7, 10, 0)
PacificFall == HalfHour(10, 27, 9, 0)
PST == 0 - Hours(8)
PDT == 0 - Hours(7)
JST == Hours(9)

\* the UTC offset a zone has at a physical instant
UtcOffsetAt(tz, utc) ==
    CASE tz = UTC -> 0
      [] tz = Asia_Tokyo -> JST
      [] tz = US_Pacific ->
            IF PacificSpring <= utc /\ utc < PacificFall THEN PDT ELSE PST

\* every offset a zone ever uses, and the one it uses outside daylight saving
OffsetsOf(tz) ==
    CASE tz = UTC -> {0}
      [] tz = Asia_Tokyo -> {JST}
      [] tz = US_Pacific -> {PST, PDT}

StandardOffset(tz) ==
    CASE tz = UTC -> 0
      [] tz = Asia_Tokyo -> JST
      [] tz = US_Pacific -> PST

---------------------------------------------------------------------------
(* datetime values *)

Aware(wall, off, tz) == [wall |-> wall, utcoffset |-> off, tzinfo |-> tz]
Naive(wall) == [wall |-> wall, utcoffset |-> 0, tzinfo |-> "None"]

\* the physical instant of an aware datetime
InstantOf(dt) == dt.wall - dt.utcoffset

\* tz.fromutc
FromUtc(tz, utc) == Aware(utc + UtcOffsetAt(tz, utc), UtcOffsetAt(tz, utc), tz)

\* a normalize that swaps the tzinfo and keeps the wall-clock fields
normalizeKeepingWall(tz, dt) == Aware(dt.wall, UtcOffsetAt(tz, dt.wall), tz)

\* tz.normalize(dt): re-express an aware datetime in tz
normalize(tz, dt) == FromUtc(tz, InstantOf(dt))

\* dt.replace(tzinfo=None)
ReplaceTzinfoNone(dt) == Naive(dt.wall)

\* a localize that resolves an ambiguous wall clock to daylight-saving time
localizeDst(tz, naive) ==
    Aware(naive.wall,
          IF {off \in OffsetsOf(tz) : UtcOffsetAt(tz, naive.wall - off) = off} = {}
          THEN StandardOffset(tz)
          ELSE CHOOSE o \in {off \in OffsetsOf(tz) :
                                UtcOffsetAt(tz, naive.wall - off) = off} :
                   \A q \in {off \in OffsetsOf(tz) :
                                UtcOffsetAt(tz, naive.wall - off) = off} : o >= q,
          tz)

\* tz.localize(naive), is_dst=False: the offsets under which the wall clock
\* exists; one of them if it is unique, else the standard-time one (ambiguous
\* wall clock), and the standard-time one for a wall clock that does not exist
LocalizeCandidates(tz, wall) ==
    {off \in OffsetsOf(tz) : UtcOffsetAt(tz, wall - off) = off}

localize(tz, naive) ==
    LET cands == LocalizeCandidates(tz, naive.wall)
        off == IF Cardinality(cands) = 1
               THEN CHOOSE o \in cands : TRUE
               ELSE StandardOffset(tz)
    IN  Aware(naive.wall, off, tz)

\* an equality on wall-clock fields
DatetimeEqWall(a, b) == a.wall = b.wall

\* aware == aware and aware - aware
DatetimeEq(a, b) == InstantOf(a) = InstantOf(b)
DatetimeSub(a, b) == InstantOf(a) - InstantOf(b)

---------------------------------------------------------------------------
(* The store: the Timestamp model on a Postgres connection whose session   *)
(* time zone is settings.TIME_ZONE.  The column is a timestamp with time   *)
(* zone: Postgres keeps the UTC instant.                                   *)

\* a session that reads an ambiguous wall clock as daylight-saving time
PgSessionOffsetDst(tz, wall) ==
    LET cands == {off \in OffsetsOf(tz) : UtcOffsetAt(tz, wall - off) = off}
    IN  IF cands = {}
        THEN StandardOffset(tz)
        ELSE CHOOSE o \in cands : \A q \in cands : o >= q

\* Postgres reading a literal without offset in the session zone; a wall
\* clock that is ambiguous or does not exist gets the standard-time offset
PgSessionOffset(tz, wall) ==
    LET cands == {off \in OffsetsOf(tz) : UtcOffsetAt(tz, wall - off) = off}
    IN  IF Cardinality(cands) = 1
        THEN CHOOSE o \in cands : TRUE
        ELSE StandardOffset(tz)

\* a store that drops the offset of an aware value and reads its wall clock
\* in the session zone
StoredInstantByWall(dt) == dt.wall - PgSessionOffset(DJANGO_TZ, dt.wall)

\* the instant Postgres stores for the value handed to create()
StoredInstant(dt) ==
    IF dt.tzinfo = "None"
    THEN dt.wall - PgSessionOffset(DJANGO_TZ, dt.wall)
    ELSE InstantOf(dt)

\* Timestamp.objects.create(timestamp=dt): the table with the new record;
\* the record's pk is its position
create(d, dt) == Append(d, StoredInstant(dt))

\* "timestamp at time zone '<zone>'": the wall clock of the stored instant
\* in that zone, without offset
AtTimeZone(tz, utc) == Naive(utc + UtcOffsetAt(tz, utc))

\* a connection that returns the column in UTC, whatever the session zone
ImplicitColumnUtc(utc) == Naive(utc)

\* the plain column as the connection returns it: the wall clock of the
\* stored instant in the session zone, without tzinfo
ImplicitColumn(utc) == Naive(utc + UtcOffsetAt(DJANGO_TZ, utc))

---------------------------------------------------------------------------
(* SaveMethod, LoadMethod, TestResult, Test *)

Styles == {"aware", "naive"}
Conversions == {"implicit", "explicit"}

SaveMethod(tz, style) == [tz |-> tz, style |-> style]
LoadMethod(tz, conversion) == [tz |-> tz, conversion |-> conversion]

\* SaveMethod.save: the value handed to the store
SaveValue(sm, dt) ==
    LET n == normalize(sm.tz, dt)
    IN  IF sm.style = "naive" THEN ReplaceTzinfoNone(n) ELSE n

\* SaveMethod.save: the table after the create
save(sm, dt, d) == create(d, SaveValue(sm, dt))

\* LoadMethod.load of the record pk: <<stored_datetime, loaded_datetime>>
load(lm, pk, d) ==
    LET select == [timestamp_explicit |-> AtTimeZone(lm.tz, d[pk]),
                   timestamp_stored |-> AtTimeZone(UTC, d[pk]),
                   timestamp |-> ImplicitColumn(d[pk])]
        loaded_attr == IF lm.conversion = "implicit"
                       THEN select.timestamp
                       ELSE select.timestamp_explicit
    IN  <<localize(UTC, select.timestamp_stored), localize(lm.tz, loaded_attr)>>

TestResult(saved_dt, stored_dt, loaded_dt) ==
    [stored_correctly |-> DatetimeEq(saved_dt, stored_dt),
     loaded_correctly |-> DatetimeEq(saved_dt, loaded_dt),
     stored_error |-> DatetimeSub(stored_dt, saved_dt),
     loaded_error |-> DatetimeSub(loaded_dt, saved_dt)]

\* Test.__init__ with the class counter at n
Test(n, save_method, load_method) ==
    [test_number |-> n, save_method |-> save_method, load_method |-> load_method]

\* what the store does to one trial: nothing, or an error raised by the
\* create, or an error raised by the read
Faults == {"none", "save", "load"}

SaveEvent(pk, ok) == [op |-> "save", pk |-> pk, ok |-> ok]
LoadEvent(pk, ok) == [op |-> "load", pk |-> pk, ok |-> ok]

\* the outcome of a trial whose create raised: no record, load not called
SaveFailed(d, l) ==
    [ok |-> FALSE, db |-> d, log |-> Append(l, SaveEvent(0, FALSE)), value |-> <<>>]

\* a trial that deletes its record when the load raises
AfterSaveRollback(test, d1, l, fault) ==
    IF fault = "load"
    THEN [ok |-> FALSE, db |-> SubSeq(d1, 1, Len(d1) - 1),
          log |-> l \o <<SaveEvent(Len(d1), TRUE), LoadEvent(Len(d1), FALSE)>>,
          value |-> <<>>]
    ELSE [ok |-> TRUE, db |-> d1,
          log |-> l \o <<SaveEvent(Len(d1), TRUE), LoadEvent(Len(d1), TRUE)>>,
          value |-> load(test.load_method, Len(d1), d1)]

\* a trial that loads the first record of the table instead of its own
AfterSaveLoadsFirst(test, d1, l, fault) ==
    IF fault = "load"
    THEN [ok |-> FALSE, db |-> d1,
          log |-> l \o <<SaveEvent(Len(d1), TRUE), LoadEvent(1, FALSE)>>,
          value |-> <<>>]
    ELSE [ok |-> TRUE, db |-> d1,
          log |-> l \o <<SaveEvent(Len(d1), TRUE), LoadEvent(1, TRUE)>>,
          value |-> load(test.load_method, 1, d1)]

\* the rest of a trial once save has returned the record Len(d1) of d1: the
\* load raises (the record stays), or returns the pair of datetimes
AfterSave(test, d1, l, fault) ==
    IF fault = "load"
    THEN [ok |-> FALSE, db |-> d1,
          log |-> l \o <<SaveEvent(Len(d1), TRUE), LoadEvent(Len(d1), FALSE)>>,
          value |-> <<>>]
    ELSE [ok |-> TRUE, db |-> d1,
          log |-> l \o <<SaveEvent(Len(d1), TRUE), LoadEvent(Len(d1), TRUE)>>,
          value |-> load(test.load_method, Len(d1), d1)]

\* Test.make_roundtrip: load(save(saved_dt)); the argument is evaluated first
make_roundtrip(test, saved_dt, d, l, fault) ==
    IF fault = "save"
    THEN SaveFailed(d, l)
    ELSE AfterSave(test, save(test.save_method, saved_dt, d), l, fault)

\* TestResult(saved_dt, *roundtrip), unless the roundtrip raised
ResultOf(saved_dt, rt) ==
    IF rt.ok
    THEN [rt EXCEPT !.value = TestResult(saved_dt, rt.value[1], rt.value[2])]
    ELSE rt

\* Test.run_test
run_test(test, saved_dt, d, l, fault) ==
    ResultOf(saved_dt, make_roundtrip(test, saved_dt, d, l, fault))

---------------------------------------------------------------------------
(* TestTable *)

\* the number of leading label cells of the headers and of every row
LabelCells == Len(<<"#", "Save As", "Load As">>)

\* TestTable.__init__
NewHeaders == <<"#", "Save As", "Load As">>
NewRows == <<>>

\* what a call leaves behind when the trial r ended it with an exception
Raised(rs, r) == [rows |-> rs, db |-> r.db, log |-> r.log, failed |-> TRUE]

\* what a call leaves behind when its loop has ended
Completed(rs, d, l) == [rows |-> rs, db |-> d, log |-> l, failed |-> FALSE]

\* an append that always lands on the first row
RowAppendFirst(rs, i, value) == [rs EXCEPT ![1] = Append(@, value)]

\* row.append(value) on row i of rs
RowAppend(rs, i, value) == [rs EXCEPT ![i] = Append(@, value)]

\* the fault that trial k of a call meets
FaultOf(k, failAt, kind) == IF k = failAt THEN kind ELSE "none"

\* the loop of add_datetime from row i on, r being the trial of row i: its
\* exception ends the loop, with no cell appended for row i
RECURSIVE AddDatetimeRows(_, _, _, _, _, _, _)
AddDatetimeRow(rs, i, dt, r, failAt, kind) ==
    IF ~r.ok
    THEN Raised(rs, r)
    ELSE AddDatetimeRows(RowAppend(rs, i, r.value), i + 1, dt, r.db, r.log,
                         failAt, kind)

AddDatetimeRows(rs, i, dt, d, l, failAt, kind) ==
    IF i > Len(rs)
    THEN Completed(rs, d, l)
    ELSE AddDatetimeRow(rs, i, dt,
                        run_test(rs[i][1], dt, d, l, FaultOf(i, failAt, kind)),
                        failAt, kind)

\* TestTable.add_datetime: the header is appended before the loop runs
add_datetime(hs, rs, dt, d, l, failAt, kind) ==
    [headers |-> Append(hs, normalize(DJANGO_TZ, dt)),
     out |-> AddDatetimeRows(rs, 1, dt, d, l, failAt, kind)]

\* the loop of add_test over headers[3:], from header j on, r being the trial
\* of header j; the row being filled is the last one of rs
RECURSIVE AddTestCells(_, _, _, _, _, _, _, _)
AddTestCell(hs, rs, j, test, r, failAt, kind) ==
    IF ~r.ok
    THEN Raised(rs, r)
    ELSE AddTestCells(hs, RowAppend(rs, Len(rs), r.value), j + 1, test,
                      r.db, r.log, failAt, kind)

AddTestCells(hs, rs, j, test, d, l, failAt, kind) ==
    IF j > Len(hs)
    THEN Completed(rs, d, l)
    ELSE AddTestCell(hs, rs, j, test,
                     run_test(test, hs[j], d, l,
                              FaultOf(j - LabelCells, failAt, kind)),
                     failAt, kind)

\* TestTable.add_test: the row is appended before the loop runs
add_test(hs, rs, test, d, l, failAt, kind) ==
    [headers |-> hs,
     out |-> AddTestCells(hs, Append(rs, <<test, test.save_method, test.load_method>>),
                          LabelCells + 1, test, d, l, failAt, kind)]

\* the table and the store after a call
Commit(call) ==
    /\ headers' = call.headers
    /\ rows' = call.out.rows
    /\ db' = call.out.db
    /\ log' = call.out.log
    /\ failed' = call.out.failed

---------------------------------------------------------------------------
(* The catalog *)

datetimes ==
    << Aware(HalfHour(10, 27, 8, 30), 0, UTC),
       Aware(HalfHour(4, 7, 2, 30), 0, UTC) >>

tests ==
    << Test(1, SaveMethod(DJANGO_TZ, "naive"), LoadMethod(DJANGO_TZ, "implicit")),
       Test(2, SaveMethod(DJANGO_TZ, "naive"), LoadMethod(DJANGO_TZ, "explicit")),
       Test(3, SaveMethod(DJANGO_TZ, "aware"), LoadMethod(DJANGO_TZ, "implicit")),
       Test(4, SaveMethod(DJANGO_TZ, "aware"), LoadMethod(DJANGO_TZ, "explicit")),
       Test(5, SaveMethod(DJANGO_TZ, "naive"), LoadMethod(UTC, "explicit")),
       Test(6, SaveMethod(UTC, "aware"), LoadMethod(DJANGO_TZ, "implicit")),
       Test(7, SaveMethod(UTC, "naive"), LoadMethod(UTC, "implicit")),
       Test(8, SaveMethod(UTC, "aware"), LoadMethod(UTC, "explicit")),
       Test(9, SaveMethod(DJANGO_TZ, "aware"), LoadMethod(UTC, "explicit")) >>

---------------------------------------------------------------------------
(* Inputs *)

\* the catalog's datetimes, each also expressed in the other zones
TableDatetimes ==
    {normalize(z, datetimes[i]) : z \in Zones, i \in 1..Len(datetimes)}

\* instants around the catalog's datetimes, around the two transitions of
\* US/Pacific, and around the instants whose UTC wall clock is the wall clock
\* of a transition
Centers ==
    {InstantOf(datetimes[i]) : i \in 1..Len(datetimes)}
        \cup {PacificSpring, PacificFall, PacificSpring + PST, PacificFall + PST}

Instants == {c + k : c \in Centers, k \in (0 - Window)..Window}

FaultKinds == Faults \ {"none"}

---------------------------------------------------------------------------
(* Spec: one TestTable grown by add_datetime and add_test in any order *)

Calls == (Len(headers) - LabelCells) + Len(rows)

Init ==
    /\ DJANGO_TZ \in Zones
    /\ next_test_number = Len(tests) + 1
    /\ db = <<>>
    /\ log = <<>>
    /\ headers = NewHeaders
    /\ rows = NewRows
    /\ failed = FALSE
    /\ added = <<>>
    /\ pc = "table"
    /\ trial = <<>>
    /\ result = <<>>

AddDatetime ==
    /\ pc = "table"
    /\ ~failed
    /\ Calls < MaxCalls
    /\ \E dt \in TableDatetimes, failAt \in 0..Len(rows), kind \in FaultKinds :
          /\ Commit(add_datetime(headers, rows, dt, db, log, failAt, kind))
          /\ added' = Append(added, dt)
    /\ UNCHANGED <<DJANGO_TZ, next_test_number, pc, trial, result>>

AddTest ==
    /\ pc = "table"
    /\ ~failed
    /\ Calls < MaxCalls
    /\ \E t \in 1..Len(tests), failAt \in 0..(Len(headers) - LabelCells),
          kind \in FaultKinds :
          Commit(add_test(headers, rows, tests[t], db, log, failAt, kind))
    /\ UNCHANGED <<DJANGO_TZ, next_test_number, added, pc, trial, result>>

Next == AddDatetime \/ AddTest

Spec == Init /\ [][Next]_vars

---------------------------------------------------------------------------
(* SpecCatalog: generate_test_table, one loop iteration per step *)

InitCatalog ==
    /\ DJANGO_TZ \in Zones
    /\ next_test_number = Len(tests) + 1
    /\ db = <<>>
    /\ log = <<>>
    /\ headers = NewHeaders
    /\ rows = NewRows
    /\ failed = FALSE
    /\ added = <<>>
    /\ pc = "generate"
    /\ trial = <<>>
    /\ result = <<>>

\* for dt in datetimes: table.add_datetime(dt)
GenAddDatetime ==
    /\ pc = "generate"
    /\ ~failed
    /\ Len(added) < Len(datetimes)
    /\ \E failAt \in 0..Len(rows), kind \in FaultKinds :
          /\ Commit(add_datetime(headers, rows, datetimes[Len(added) + 1], db, log,
                                 failAt, kind))
          /\ added' = Append(added, datetimes[Len(added) + 1])
    /\ UNCHANGED <<DJANGO_TZ, next_test_number, pc, trial, result>>

\* for test in tests: table.add_test(test)
GenAddTest ==
    /\ pc = "generate"
    /\ ~failed
    /\ Len(added) = Len(datetimes)
    /\ Len(rows) < Len(tests)
    /\ \E failAt \in 0..(Len(headers) - LabelCells), kind \in FaultKinds :
          Commit(add_test(headers, rows, tests[Len(rows) + 1], db, log,
                          failAt, kind))
    /\ UNCHANGED <<DJANGO_TZ, next_test_number, added, pc, trial, result>>

\* return table
GenReturn ==
    /\ pc = "generate"
    /\ ~failed
    /\ Len(added) = Len(datetimes)
    /\ Len(rows) = Len(tests)
    /\ pc' = "returned"
    /\ UNCHANGED <<DJANGO_TZ, next_test_number, db, log, headers, rows, failed,
                   added, trial, result>>

NextCatalog == GenAddDatetime \/ GenAddTest \/ GenReturn

SpecCatalog == InitCatalog /\ [][NextCatalog]_vars

---------------------------------------------------------------------------
(* SpecTrial: one Test.run_test, or one TestResult, on an empty store *)

InitTrial ==
    /\ DJANGO_TZ \in Zones
    /\ next_test_number = Len(tests) + 1
    /\ db = <<>>
    /\ log = <<>>
    /\ headers = NewHeaders
    /\ rows = NewRows
    /\ failed = FALSE
    /\ added = <<>>
    /\ pc = "trial"
    /\ trial = <<>>
    /\ result = <<>>

\* the store and the TestResult after a trial
CommitTrial(r) ==
    /\ result' = r.value
    /\ failed' = ~r.ok
    /\ db' = r.db
    /\ log' = r.log

\* Test(SaveMethod(..), LoadMethod(..)).run_test(saved_dt)
RunTest ==
    /\ pc = "trial"
    /\ \E stz \in Zones, style \in Styles, ltz \in Zones, conv \in Conversions,
          t \in Instants, z \in Zones, fault \in Faults :
          /\ trial' = [test |-> Test(next_test_number, SaveMethod(stz, style),
                                     LoadMethod(ltz, conv)),
                        saved_dt |-> FromUtc(z, t)]
          /\ CommitTrial(run_test(trial'.test, trial'.saved_dt, db, log, fault))
    /\ next_test_number' = next_test_number + 1
    /\ pc' = "ran"
    /\ UNCHANGED <<DJANGO_TZ, headers, rows, added>>

\* TestResult(a, b, c) on three expressions of one instant
Compare ==
    /\ pc = "trial"
    /\ \E t \in Instants, za \in Zones, zb \in Zones, zc \in Zones :
          /\ trial' = <<FromUtc(za, t), FromUtc(zb, t), FromUtc(zc, t)>>
          /\ result' = TestResult(FromUtc(za, t), FromUtc(zb, t), FromUtc(zc, t))
    /\ pc' = "compared"
    /\ UNCHANGED <<DJANGO_TZ, next_test_number, db, log, headers, rows, failed,
                   added>>

NextTrial == RunTest \/ Compare

SpecTrial == InitTrial /\ [][NextTrial]_vars

---------------------------------------------------------------------------
(* Whole builds of a table on a store that raises nothing *)

RECURSIVE AddAllDatetimes(_, _, _)
AddAllDatetimes(tbl, dts, k) ==
    IF k > Len(dts)
    THEN tbl
    ELSE AddAllDatetimes(
             [headers |-> add_datetime(tbl.headers, tbl.rows, dts[k], <<>>, <<>>,
                                       0, "save").headers,
              rows |-> add_datetime(tbl.headers, tbl.rows, dts[k], <<>>, <<>>,
                                    0, "save").out.rows],
             dts, k + 1)

RECURSIVE AddAllTests(_, _, _)
AddAllTests(tbl, ts, k) ==
    IF k > Len(ts)
    THEN tbl
    ELSE AddAllTests(
             [headers |-> tbl.headers,
              rows |-> add_test(tbl.headers, tbl.rows, ts[k], <<>>, <<>>,
                                0, "save").out.rows],
             ts, k + 1)

NewTable == [headers |-> NewHeaders, rows |-> NewRows]

\* generate_test_table's order: every datetime, then every test
ColumnsFirst(dts, ts) == AddAllTests(AddAllDatetimes(NewTable, dts, 1), ts, 1)

\* the other order: every test, then every datetime
RowsFirst(dts, ts) == AddAllDatetimes(AddAllTests(NewTable, ts, 1), dts, 1)

---------------------------------------------------------------------------
(* Vocabulary of the properties *)

Columns == Len(headers) - LabelCells

\* the Test objects of the rows, in order
RowTests == [i \in 1..Len(rows) |-> rows[i][1]]

\* the TestResult of row i under datetime column j
Cell(i, j) == rows[i][LabelCells + j]

\* what TestResult.__unicode__ prints as OK/OK
CellOK(c) == c.stored_correctly /\ c.loaded_correctly

SaveEvents == {k \in 1..Len(log) : log[k].op = "save"}

\* the last trial run by RunTest paired the given save and load methods and
\* returned a TestResult
Ran(stz, style, ltz, conv) ==
    /\ pc = "ran"
    /\ ~failed
    /\ trial.test.save_method = SaveMethod(stz, style)
    /\ trial.test.load_method = LoadMethod(ltz, conv)

\* the instants at which tz shows, for the first time, a wall clock that it
\* shows again after falling back
FirstPassOfRepeatedHour(tz, utc) ==
    /\ tz = US_Pacific
    /\ PacificFall - Hours(1) <= utc
    /\ utc < PacificFall

\* the wall clocks that tz skips when it springs forward
InSkippedHour(tz, wall) ==
    /\ tz = US_Pacific
    /\ PacificSpring + PST <= wall
    /\ wall < PacificSpring + PST + Hours(1)

---------------------------------------------------------------------------
(* C1 *)

\* C1: as long as no trial has failed, after every add_datetime / add_test
\* call every row is as long as the headers (3 label cells and one TestResult
\* per datetime column).
Rectangularity ==
    (pc = "table" /\ ~failed) =>
        \A i \in 1..Len(rows) : Len(rows[i]) = Len(headers)

\* a table with two rows and a column, every call of which succeeded
RectangularityWitness ==
    /\ pc = "table"
    /\ ~failed
    /\ Len(rows) = 2
    /\ Columns = 1

---------------------------------------------------------------------------
(* C2 *)

\* C2: whatever trial fails during add_datetime or add_test, the table stays
\* rectangular and every trial of the grid has been run (none is skipped):
\* one save was attempted per row and datetime column.
FailureIsolation ==
    (pc = "table" /\ failed) =>
        /\ \A i \in 1..Len(rows) : Len(rows[i]) = Len(headers)
        /\ Cardinality(SaveEvents) = Len(rows) * Columns

---------------------------------------------------------------------------
(* C3 *)

\* C3 as stated: for every zone Z and every instant, saving aware in Z and
\* loading explicitly in Z stores and loads the instant correctly.
AwareRoundTripEveryZone ==
    \A z \in Zones :
        Ran(z, "aware", z, "explicit") =>
            result.stored_correctly /\ result.loaded_correctly

\* C3 amended: saving aware in Z and loading explicitly in Z always stores the
\* instant correctly; it loads it correctly except in the hour before Z falls
\* back, whose wall clock is localized to standard time: there loaded_error
\* is +1 hour.
AwareRoundTripOutsideRepeatedHour ==
    \A z \in Zones :
        Ran(z, "aware", z, "explicit") =>
            /\ result.stored_correctly
            /\ result.stored_error = 0
            /\ result.loaded_correctly
                   <=> ~FirstPassOfRepeatedHour(z, InstantOf(trial.saved_dt))
            /\ FirstPassOfRepeatedHour(z, InstantOf(trial.saved_dt))
                   => result.loaded_error = Hours(1)
            /\ ~FirstPassOfRepeatedHour(z, InstantOf(trial.saved_dt))
                   => result.loaded_error = 0

\* the catalog's first datetime, saved aware and loaded explicitly in
\* US/Pacific, comes back one hour late
AwareRoundTripWitness ==
    /\ Ran(US_Pacific, "aware", US_Pacific, "explicit")
    /\ DatetimeEq(trial.saved_dt, datetimes[1])
    /\ result.stored_correctly
    /\ result.loaded_error = Hours(1)

---------------------------------------------------------------------------
(* C4 *)

\* C4 as stated: SaveMethod(UTC, naive) with LoadMethod(UTC, implicit)
\* round-trips exactly, whatever the connection zone.
UtcBaselineEveryConnection ==
    Ran(UTC, "naive", UTC, "implicit") =>
        /\ result.stored_correctly
        /\ result.loaded_correctly
        /\ result.stored_error = 0
        /\ result.loaded_error = 0

\* C4 amended: the pair round-trips exactly when the connection zone is UTC.
\* Under a connection zone with a nonzero offset the store reads the naive
\* UTC wall clock in the connection zone, so the stored instant is wrong by
\* minus that zone's offset; the loaded value is still correct unless that
\* wall clock falls in the hour the connection zone skips.
UtcBaselineUtcConnection ==
    Ran(UTC, "naive", UTC, "implicit") =>
        /\ DJANGO_TZ = UTC =>
              /\ result.stored_correctly
              /\ result.loaded_correctly
              /\ result.stored_error = 0
              /\ result.loaded_error = 0
        /\ DJANGO_TZ # UTC =>
              /\ ~result.stored_correctly
              /\ result.stored_error \in {0 - off : off \in OffsetsOf(DJANGO_TZ)}
              /\ result.loaded_correctly
                     <=> ~InSkippedHour(DJANGO_TZ, InstantOf(trial.saved_dt))

\* the baseline pair on a UTC connection, and on a US/Pacific connection
\* where the store is eight hours off and the loaded value is right
UtcBaselineWitness ==
    /\ Ran(UTC, "naive", UTC, "implicit")
    /\ DatetimeEq(trial.saved_dt, datetimes[1])
    /\ \/ DJANGO_TZ = UTC /\ CellOK(result)
       \/ /\ DJANGO_TZ = US_Pacific
          /\ result.stored_error = Hours(8)
          /\ result.loaded_correctly

---------------------------------------------------------------------------
(* C5 *)

\* C5: with US/Pacific as the Django and connection zone, the table that
\* generate_test_table returns shows OK/OK under both datetimes for the last
\* two tests and for no other: each of the first seven tests has a cell whose
\* stored or loaded value is not OK.
OnlyLastTwoTestsPass ==
    (pc = "returned" /\ DJANGO_TZ = US_Pacific) =>
        /\ Len(rows) = Len(tests)
        /\ Columns = Len(datetimes)
        /\ \A i \in 1..Len(rows) :
              (\A j \in 1..Columns : CellOK(Cell(i, j)))
                  <=> i \in {Len(tests) - 1, Len(tests)}

\* generate_test_table has returned the full table under US/Pacific
OnlyLastTwoTestsPassWitness ==
    /\ pc = "returned"
    /\ DJANGO_TZ = US_Pacific
    /\ Len(rows) = Len(tests)
    /\ CellOK(Cell(Len(tests), 1))
    /\ ~CellOK(Cell(1, 1))

---------------------------------------------------------------------------
(* C6 *)

\* C6: a table grown without failure holds the same headers, rows and
\* TestResults as the table built from the same datetimes and tests columns
\* first, and as the one built rows first; in particular the two orders agree,
\* although rows added after a column run their trials from the normalized
\* header and rows added before it run them from the datetime as given.
GrowthOrderIndependence ==
    (pc = "table" /\ ~failed) =>
        /\ ColumnsFirst(added, RowTests) = RowsFirst(added, RowTests)
        /\ ColumnsFirst(added, RowTests) = [headers |-> headers, rows |-> rows]

\* a table that got a test between two datetimes, one of them given in a
\* zone other than the Django zone
GrowthOrderWitness ==
    /\ pc = "table"
    /\ ~failed
    /\ Len(rows) = 1
    /\ Columns = 2
    /\ Len(log) = 4
    /\ Len(db) = 2
    /\ added[2].tzinfo # DJANGO_TZ
    /\ log[1] = SaveEvent(1, TRUE)

---------------------------------------------------------------------------
(* C7 *)

\* C7: every load is the call right after a save that returned the record it
\* loads; a save that raised is followed by no call at all and its error has
\* propagated; a load that raised is followed by no call, its error has
\* propagated and the record its save created is still in the store.
SaveThenLoad ==
    pc = "table" =>
        \A k \in 1..Len(log) :
            /\ log[k].op = "load" =>
                  /\ k > 1
                  /\ log[k - 1] = SaveEvent(log[k].pk, TRUE)
                  /\ log[k].pk \in 1..Len(db)
            /\ (log[k].op = "save" /\ log[k].ok) =>
                  /\ k < Len(log)
                  /\ log[k + 1].op = "load"
            /\ ~log[k].ok => (k = Len(log) /\ failed)
            /\ (log[k].op = "load" /\ ~log[k].ok) => log[k].pk = Len(db)

\* a call whose second trial failed in load: the error propagated and the
\* record of that trial is in the store
SaveThenLoadWitness ==
    /\ pc = "table"
    /\ failed
    /\ Len(log) = 4
    /\ log[4] = LoadEvent(2, FALSE)
    /\ Len(db) = 2

---------------------------------------------------------------------------
(* C8 *)

\* C8: 2002-10-27T08:30:00Z saved naive in US/Pacific and loaded implicitly
\* in US/Pacific comes back with a nonzero loaded_error (loaded_correctly is
\* false): the wall clock 01:30 is localized to standard time, one hour late.
FallBackExposure ==
    (Ran(US_Pacific, "naive", US_Pacific, "implicit")
        /\ DatetimeEq(trial.saved_dt, datetimes[1])) =>
            /\ result.loaded_error # 0
            /\ ~result.loaded_correctly
            /\ result.loaded_error = Hours(1)

\* that trial on a US/Pacific connection
FallBackExposureWitness ==
    /\ Ran(US_Pacific, "naive", US_Pacific, "implicit")
    /\ DJANGO_TZ = US_Pacific
    /\ trial.saved_dt = datetimes[1]
    /\ result.loaded_error # 0

---------------------------------------------------------------------------
(* C9 *)

\* C9: a TestResult built from three expressions of one instant, in the same
\* zone or in different zones, has both flags true and both errors zero.
ComparisonIdempotence ==
    pc = "compared" =>
        /\ result.stored_correctly
        /\ result.loaded_correctly
        /\ result.stored_error = 0
        /\ result.loaded_error = 0

\* a TestResult of one instant expressed in three different zones, with
\* three different wall clocks
ComparisonWitness ==
    /\ pc = "compared"
    /\ trial[1].tzinfo = UTC
    /\ trial[2].tzinfo = US_Pacific
    /\ trial[3].tzinfo = Asia_Tokyo
    /\ trial[1].wall # trial[2].wall
    /\ trial[2].wall # trial[3].wall
    /\ CellOK(result)

---------------------------------------------------------------------------
(* C10 *)

\* C10: as long as no trial has failed, the store holds one record per cell
\* of the grid, and the k-th trial saved the record k and loaded the record k:
\* no record is written or read by two trials.
OneRecordPerTrial ==
    (pc = "table" /\ ~failed) =>
        /\ Len(db) = Len(rows) * Columns
        /\ Len(log) = 2 * Len(db)
        /\ \A k \in 1..Len(db) :
              /\ log[2 * k - 1] = SaveEvent(k, TRUE)
              /\ log[2 * k] = LoadEvent(k, TRUE)

\* two trials have run on one table
OneRecordPerTrialWitness ==
    /\ pc = "table"
    /\ ~failed
    /\ Len(rows) * Columns = 2
    /\ Len(db) = 2

===========================================================================
